---- MODULE Spec2Model ----
(***************************************************************************)
(* Session-and-room core of the mahjong game server: the player registry   *)
(* (Manager), the room registry (DeskManager) and the command handlers     *)
(* that route client commands to rooms.                                    *)
(*                                                                         *)
(* A Player object is identified by its uid, a Desk by its room number, a  *)
(* session by a small integer; 0 stands for nil.  Every handler runs to    *)
(* completion on the scheduler goroutine, so one handler is one action.    *)
(* `out` holds, in order, what the last handler did that a client or an    *)
(* observer of the handler can see (pushes, broadcasts, responses, closes, *)
(* group changes), each as <<kind, what, uid or room number>>; a request    *)
(* that names a room is recorded first, as <<"request", handler, room,     *)
(* uid>>.                                                                  *)
(***************************************************************************)
EXTENDS Integers, Sequences, FiniteSets, TLC

\* ------------------------------------------------------------------ bounds
NumPlayers == 2
NumSessions == 3
NumDesks == 2
MaxSeats == 2
MaxQueue == 1
TickStep == 100
\* The capacity of a player's operation queue (deskOpBacklog is 64).
MaxOps == 2
\* The kinds of choice a client sends.
NumOpTypes == 2
\* The largest tile index (two suits, the second cut short) and the largest
\* hand given to the evaluation.
MaxTileIndex == 11
MaxHand == 4

\* ------------------------------------------------------- program constants
applyDissolveRestTime == 300
agreeDissolveRestTime == 150

Uids == 1..NumPlayers
Sessions == 1..NumSessions
DeskNos == 1..NumDesks
\* A uid that no session can be bound to, as a request may carry it.
IllegalUid == -1
\* The uids of the players a registry can hold.
PlayerIds == Uids \cup {IllegalUid}
OpTypes == 1..NumOpTypes
\* The modes of a room, each named by its number of seats: two, as in the
\* game (three and four seats), with fewer seats.
Modes == {MaxSeats - 1, MaxSeats}

DeskStatusCreate == "Create"
DeskStatusPlaying == "Playing"
DeskStatusDestory == "Destory"
NoDesk == "none"

VARIABLES
    sUid,        \* session -> bound uid (0: unbound)
    sPlayer,     \* session -> the Player kept in the session's data (0: none)
    sClosed,     \* sessions that are closed
    closing,     \* closed sessions whose OnClosed callbacks are still scheduled
    group,       \* Manager.group: the system broadcast group
    players,     \* Manager.players: uids in the registry
    pSession,    \* Player.session (0: nil)
    pDesk,       \* Player.desk (0: nil)
    desks,       \* DeskManager.desks: room numbers in the registry
    dStatus,     \* Desk status (NoDesk: number not allocated yet)
    dPlayers,    \* Desk.players: the seats, a sequence of uids
    dGroup,      \* Desk.group: sessions receiving the room's broadcasts
    dMode,       \* Desk.opts.Mode
    dOld,        \* createdAt is more than 24 hours ago
    ready,       \* Desk.prepare: uids that have readied
    dissolving,  \* Desk.dissolve: a vote is active
    restTime,    \* Desk.dissolve.restTime
    agreed,      \* Desk.dissolve: uids whose agree flag is set
    offline,     \* Desk.dissolve: uids whose online flag is off
    nextNo,      \* room.Next(): the next room number
    chKick, chReset, chRecharge,  \* Manager's administrative queues
    chOperation, \* Player.chOperation: the choices posted and not yet taken
    sending,     \* session -> <<uid, choice>> its OpChoose is blocked sending
    onHand,      \* the hand given to the hand evaluation
    rts,         \* what TingTiles returned for it
    ting,        \* what IsTing returned for it
    called,      \* the evaluations that have returned
    out          \* what the last handler did, in order

sessVars == <<sUid, sPlayer, sClosed, closing, group>>
playerVars == <<players, pSession, pDesk>>
deskVars == <<desks, dStatus, dPlayers, dGroup, dMode, dOld, ready, nextNo>>
voteVars == <<dissolving, restTime, agreed, offline>>
opVars == <<chOperation, sending>>
tileVars == <<onHand, rts, ting, called>>
\* The queues, and with them the hand evaluation, which no handler touches.
chanVars == <<chKick, chReset, chRecharge, opVars, tileVars>>
vars == <<sessVars, playerVars, deskVars, voteVars, chanVars, out>>

\* ----------------------------------------------------------------- helpers
Range(q) == {q[i] : i \in 1..Len(q)}

RECURSIVE Without(_, _)
Without(q, x) ==
    IF q = <<>> THEN <<>>
    ELSE IF Head(q) = x THEN Without(Tail(q), x)
    ELSE <<Head(q)>> \o Without(Tail(q), x)

Max(a, b) == IF a > b THEN a ELSE b

totalPlayerCount(d) == dMode[d]

isDestroy(d) == dStatus[d] = DeskStatusDestory

InitServer ==
    /\ sUid = [s \in Sessions |-> 0]
    /\ sPlayer = [s \in Sessions |-> 0]
    /\ sClosed = {}
    /\ closing = {}
    /\ group = {}
    /\ players = {}
    /\ pSession = [u \in PlayerIds |-> 0]
    /\ pDesk = [u \in PlayerIds |-> 0]
    /\ desks = {}
    /\ dStatus = [d \in DeskNos |-> NoDesk]
    /\ dPlayers = [d \in DeskNos |-> <<>>]
    /\ dGroup = [d \in DeskNos |-> {}]
    /\ dMode = [d \in DeskNos |-> 0]
    /\ dOld = [d \in DeskNos |-> FALSE]
    /\ ready = [d \in DeskNos |-> {}]
    /\ dissolving = [d \in DeskNos |-> FALSE]
    /\ restTime = [d \in DeskNos |-> 0]
    /\ agreed = [d \in DeskNos |-> {}]
    /\ offline = [d \in DeskNos |-> {}]
    /\ nextNo = 1
    /\ chKick = <<>>
    /\ chReset = <<>>
    /\ chRecharge = <<>>
    /\ chOperation = [u \in PlayerIds |-> <<>>]
    /\ sending = [s \in Sessions |-> <<>>]
    /\ out = <<>>

\* No hand has been evaluated.
NotEvaluated ==
    /\ rts = <<>>
    /\ ting = FALSE
    /\ called = {}

Init ==
    /\ InitServer
    /\ onHand = <<>>
    /\ NotEvaluated

\* ------------------------------------------------------- sessions, players
\* session.Close(): the agent is marked closed and its OnClosed callbacks are
\* pushed to the scheduler; closing a closed session changes nothing.
ClosedAfter(S) == sClosed \cup S
ClosingAfter(S) == closing \cup (S \ sClosed)

ClearNothing(f, prev) == f

\* prevSession.Clear(), part_000:150 and part_001:257: the uid and the data
\* of the session (f is either of them) are reset.
Clear(f, prev) == [f EXCEPT ![prev] = 0]

\* Login, lines 145-149: the room whose group the previous session leaves is
\* the room of the player found in the previous session's data.
LoginLeaves(prev) ==
    IF sPlayer[prev] # 0 /\ pDesk[sPlayer[prev]] # 0
    THEN {pDesk[sPlayer[prev]]} ELSE {}

\* Login, line 145: the previous session is replaced when there is one and it
\* is not the session logging in.
LoginReplaces(u, s) == pSession[u] # 0 /\ pSession[u] # s

\* A connection is one client's: session s sends Login and ReConnect for the
\* identity of its client only.
Owner(s) == ((s - 1) % NumPlayers) + 1
SameIdentity(s, u) == u = Owner(s) \/ u = IllegalUid

\* Session.Bind refuses a uid below 1.
BindFails(u) == u < 1

\* s.Bind(uid): the uids of the sessions afterwards.
BindUid(s, u) == IF BindFails(u) THEN sUid ELSE [sUid EXCEPT ![s] = u]

\* The handler h found that s.Bind(uid) failed.
BindReported(h, u) == IF BindFails(u) THEN <<<<"bind failed", h, u>>>> ELSE <<>>

Login(s, u) ==
    /\ s \notin sClosed
    /\ SameIdentity(s, u)
    /\ IF u \notin players
       THEN /\ players' = players \cup {u}
            /\ pSession' = [pSession EXCEPT ![u] = s]
            /\ pDesk' = [pDesk EXCEPT ![u] = 0]
            /\ sUid' = BindUid(s, u)
            /\ sPlayer' = [sPlayer EXCEPT ![s] = u]
            /\ group' = group \cup {s}
            /\ out' = BindReported("Login", u)
                       \o <<<<"bind", "new", u>>, <<"response", "login", BindUid(s, u)[s]>>>>
            /\ UNCHANGED <<sClosed, closing, dGroup>>
       ELSE LET prev == pSession[u] IN
            IF LoginReplaces(u, s)
            THEN /\ dGroup' = [d \in DeskNos |->
                        IF d \in LoginLeaves(prev) THEN dGroup[d] \ {prev} ELSE dGroup[d]]
                 /\ sUid' = Clear(BindUid(s, u), prev)
                 /\ sPlayer' = [Clear(sPlayer, prev) EXCEPT ![s] = u]
                 /\ sClosed' = ClosedAfter({prev})
                 /\ closing' = ClosingAfter({prev})
                 /\ pSession' = [pSession EXCEPT ![u] = s]
                 /\ group' = group \cup {s}
                 /\ out' = BindReported("Login", u)
                           \o [d \in 1..Cardinality(LoginLeaves(prev)) |->
                                <<"leave", "prev", CHOOSE x \in LoginLeaves(prev) : TRUE>>]
                           \o <<<<"close", "prev", u>>, <<"bind", "new", u>>,
                                <<"response", "login", BindUid(s, u)[s]>>>>
                 /\ UNCHANGED <<players, pDesk>>
            ELSE /\ sUid' = BindUid(s, u)
                 /\ sPlayer' = [sPlayer EXCEPT ![s] = u]
                 /\ pSession' = [pSession EXCEPT ![u] = s]
                 /\ group' = group \cup {s}
                 /\ out' = BindReported("Login", u)
                       \o <<<<"bind", "new", u>>, <<"response", "login", BindUid(s, u)[s]>>>>
                 /\ UNCHANGED <<players, pDesk, sClosed, closing, dGroup>>
    /\ UNCHANGED <<desks, dStatus, dPlayers, dMode, dOld, ready, nextNo>>
    /\ UNCHANGED <<voteVars, chanVars>>

\* ReConnect, lines 255-268: what the handler does to a known player, in the
\* order of the code.
ReConnectSteps(prev, s, u) ==
    (IF prev # 0 THEN <<<<"close", "prev", u>>>> ELSE <<>>)
    \o <<<<"bind", "new", u>>>>
    \o (IF pDesk[u] # 0 /\ prev # 0 THEN <<<<"leave", "prev", pDesk[u]>>>> ELSE <<>>)

ReConnect(s, u) ==
    /\ s \notin sClosed
    /\ SameIdentity(s, u)
    /\ IF BindFails(u)
       THEN /\ out' = BindReported("ReConnect", u) \o <<<<"error", "bind", u>>>>
            /\ UNCHANGED <<sUid, sPlayer, sClosed, closing, playerVars, dGroup>>
       ELSE IF u \notin players
       THEN /\ players' = players \cup {u}
            /\ pSession' = [pSession EXCEPT ![u] = s]
            /\ pDesk' = [pDesk EXCEPT ![u] = 0]
            /\ sUid' = [sUid EXCEPT ![s] = u]
            /\ sPlayer' = [sPlayer EXCEPT ![s] = u]
            /\ out' = <<<<"bind", "new", u>>>>
            /\ UNCHANGED <<sClosed, closing, dGroup>>
       ELSE LET prev == pSession[u]
                \* s.Bind(uid), then prevSession.Clear() (which unbinds s
                \* itself when prevSession is s)
                uid1 == [sUid EXCEPT ![s] = u]
                uid2 == IF prev # 0 THEN Clear(uid1, prev) ELSE uid1
                pl1 == IF prev # 0 THEN Clear(sPlayer, prev) ELSE sPlayer
            IN
            /\ sUid' = uid2
            /\ sPlayer' = [pl1 EXCEPT ![s] = u]
            /\ sClosed' = IF prev # 0 THEN ClosedAfter({prev}) ELSE sClosed
            /\ closing' = IF prev # 0 THEN ClosingAfter({prev}) ELSE closing
            /\ pSession' = [pSession EXCEPT ![u] = s]
            /\ dGroup' = IF pDesk[u] # 0 /\ prev # 0
                         THEN [dGroup EXCEPT ![pDesk[u]] = @ \ {prev}]
                         ELSE dGroup
            /\ out' = ReConnectSteps(prev, s, u)
            /\ UNCHANGED <<players, pDesk>>
    /\ UNCHANGED <<group, desks, dStatus, dPlayers, dMode, dOld, ready, nextNo>>
    /\ UNCHANGED <<voteVars, chanVars>>

\* The client's connection drops: the agent closes the session.
Disconnect(s) ==
    /\ s \notin sClosed
    /\ sClosed' = ClosedAfter({s})
    /\ closing' = ClosingAfter({s})
    /\ out' = <<>>
    /\ UNCHANGED <<sUid, sPlayer, group, playerVars, deskVars, voteVars, chanVars>>

LeavesRegistryAlways(p) == TRUE

\* onPlayerDisconnect, line 153: the player leaves the registry when it has
\* no room or its room is destroyed.
LeavesRegistry(p) == pDesk[p] = 0 \/ isDestroy(pDesk[p])

\* The OnClosed callbacks of Manager and DeskManager for a closed session:
\* Manager's leaves the system group, DeskManager's runs onPlayerDisconnect
\* when the session is still bound to a uid.
OnClosed(s) ==
    /\ s \in closing
    /\ closing' = closing \ {s}
    /\ group' = group \ {s}
    /\ IF sUid[s] > 0 /\ sPlayer[s] # 0
       THEN LET p == sPlayer[s]
                ps == pSession[p]
            IN
            /\ sPlayer' = [x \in Sessions |-> IF x = ps THEN 0 ELSE sPlayer[x]]
            /\ pSession' = [pSession EXCEPT ![p] = 0]
            /\ IF LeavesRegistry(p)
               THEN /\ players' = players \ {sUid[s]}
                    /\ out' = <<<<"offline", "closed", sUid[s]>>>>
                    /\ UNCHANGED <<dGroup, offline>>
               ELSE /\ dGroup' = [dGroup EXCEPT ![pDesk[p]] = @ \ {s}]
                    /\ offline' = [offline EXCEPT ![pDesk[p]] = @ \cup {sUid[s]}]
                    /\ out' = <<<<"leave", "closed", pDesk[p]>>>>
                    /\ UNCHANGED players
       ELSE /\ out' = <<>>
            /\ UNCHANGED <<sPlayer, pSession, players, dGroup, offline>>
    /\ UNCHANGED <<sUid, sClosed, pDesk>>
    /\ UNCHANGED <<desks, dStatus, dPlayers, dMode, dOld, ready, nextNo>>
    /\ UNCHANGED <<dissolving, restTime, agreed, chanVars>>

\* ------------------------------------------------------------------- rooms
Seated(d) == Range(dPlayers[d])

\* Desk.destroy for the rooms of D: the seats and the broadcast group are
\* freed, the seated players lose their room, the room is marked destroyed.
SeatsFreed(D) ==
    [u \in PlayerIds |-> IF \E d \in D : u \in Seated(d) THEN 0 ELSE pDesk[u]]

RegistryKept(D) == desks

\* setDesk(number, nil), lines 171-173, for the rooms of D: they leave the
\* registry.
RegistryWithout(D) == desks \ D

CreateReasons == {"ok", "version", "options", "cards", "club"}

\* CreateDesk, line 582: a player that has a room cannot create another.
CreateRefused(p) == pDesk[p] # 0

\* CreateDesk, lines 585-609: an expired version, too few room cards and too
\* small a club balance are answered; malformed options are an error.
CreateRejection(reason) ==
    IF reason = "options" THEN <<"error", "options", 0>>
    ELSE <<"response", reason, 0>>

NumberTakenFirst == nextNo + 1

\* CreateDesk, lines 582-612: every refusal returns before room.Next() of
\* line 614 is called.
NumberAfterRefusal == nextNo

CreateDesk(s, mode, reason) ==
    /\ s \notin sClosed
    /\ sPlayer[s] # 0
    /\ LET p == sPlayer[s] IN
       IF CreateRefused(p)
       THEN /\ out' = <<<<"response", "reentry", 0>>>>
            /\ nextNo' = NumberAfterRefusal
            /\ UNCHANGED <<pDesk, desks, dStatus, dPlayers, dGroup, dMode, dOld, ready>>
       ELSE IF reason # "ok"
       THEN /\ out' = <<CreateRejection(reason)>>
            /\ nextNo' = NumberAfterRefusal
            /\ UNCHANGED <<pDesk, desks, dStatus, dPlayers, dGroup, dMode, dOld, ready>>
       ELSE /\ nextNo <= NumDesks
            /\ nextNo' = nextNo + 1
            /\ desks' = desks \cup {nextNo}
            /\ dStatus' = [dStatus EXCEPT ![nextNo] = DeskStatusCreate]
            /\ dPlayers' = [dPlayers EXCEPT ![nextNo] = <<sUid[s]>>]
            /\ dMode' = [dMode EXCEPT ![nextNo] = mode]
            /\ pDesk' = [pDesk EXCEPT ![p] = nextNo]
            /\ out' = <<<<"response", "created", nextNo>>>>
            /\ UNCHANGED <<dGroup, dOld, ready>>
    /\ UNCHANGED <<sessVars, players, pSession, voteVars, chanVars>>

DeskFullOffByOne(d) == Len(dPlayers[d]) > totalPlayerCount(d)

\* Join, line 656: the room is full.
DeskFull(d) == Len(dPlayers[d]) >= totalPlayerCount(d)

Join(s, d, expired, member) ==
    /\ s \notin sClosed
    /\ sPlayer[s] # 0
    /\ IF expired
       THEN /\ out' = <<<<"response", "version", d>>>>
            /\ UNCHANGED <<pDesk, dPlayers>>
       ELSE IF d \notin desks
       THEN /\ out' = <<<<"response", "notfound", d>>>>
            /\ UNCHANGED <<pDesk, dPlayers>>
       ELSE IF DeskFull(d)
       THEN /\ out' = <<<<"response", "full", d>>>>
            /\ UNCHANGED <<pDesk, dPlayers>>
       ELSE IF ~member
       THEN /\ out' = <<<<"response", "club", d>>>>
            /\ UNCHANGED <<pDesk, dPlayers>>
       ELSE /\ IF sUid[s] \in Seated(d)
               THEN UNCHANGED <<pDesk, dPlayers>>
               ELSE /\ dPlayers' = [dPlayers EXCEPT ![d] = Append(@, sUid[s])]
                    /\ pDesk' = [pDesk EXCEPT ![sPlayer[s]] = d]
            /\ out' = <<<<"response", "joined", d>>>>
    /\ UNCHANGED <<sessVars, players, pSession, voteVars, chanVars>>
    /\ UNCHANGED <<desks, dStatus, dGroup, dMode, dOld, ready, nextNo>>

ExitAllowedAlways(d) == TRUE

\* Exit, line 461: a seat is given up only before the game starts.
ExitAllowed(d) == dStatus[d] = DeskStatusCreate

\* Exit, line 454: the request is written to the log of the player p.
ExitRequestLogged(p, IsDestroy) ==
    <<"log", IF IsDestroy THEN "Exit{IsDestroy:true}" ELSE "Exit{IsDestroy:false}", p>>

ExitNoticesBroadcastFirst(s, d, IsDestroy) ==
    <<<<"broadcast", IF IsDestroy THEN "onDissolve" ELSE "onPlayerExit", d>>>>
    \o (IF sUid[s] \in Seated(d) /\ sUid[s] \notin ready[d]
        THEN <<<<"push", "onDissolve", d>>>> ELSE <<>>)

\* Exit, lines 466-496: the notices an accepted Exit sends, in order.
ExitNotices(s, d, IsDestroy) ==
    (IF sUid[s] \in Seated(d) /\ sUid[s] \notin ready[d]
     THEN <<<<"push", "onDissolve", d>>>> ELSE <<>>)
    \o <<<<"broadcast", IF IsDestroy THEN "onDissolve" ELSE "onPlayerExit", d>>>>

Exit(s, IsDestroy) ==
    /\ s \notin sClosed
    /\ sPlayer[s] # 0
    /\ LET p == sPlayer[s]
           d == pDesk[p]
       IN
       IF d = 0 \/ isDestroy(d)
       THEN /\ out' = <<ExitRequestLogged(p, IsDestroy),
                        <<"push", "onDissolveSuccess", 0>>>>
            /\ UNCHANGED <<pDesk, dPlayers, dGroup>>
       ELSE IF ~ExitAllowed(d)
       THEN /\ out' = <<ExitRequestLogged(p, IsDestroy), <<"log", "Exit:started", d>>>>
            /\ UNCHANGED <<pDesk, dPlayers, dGroup>>
       ELSE /\ out' = <<ExitRequestLogged(p, IsDestroy)>> \o ExitNotices(s, d, IsDestroy)
            /\ dGroup' = [dGroup EXCEPT ![d] = @ \ {s}]
            /\ dPlayers' = [dPlayers EXCEPT ![d] = Without(@, sUid[s])]
            /\ pDesk' = IF sUid[s] \in Seated(d)
                        THEN [pDesk EXCEPT ![sUid[s]] = 0] ELSE pDesk
    /\ UNCHANGED <<sessVars, players, pSession, voteVars, chanVars>>
    /\ UNCHANGED <<desks, dStatus, dMode, dOld, ready, nextNo>>

\* Desk.checkStart: the game starts once every occupied seat is ready.
StartsNow(d, rdy) ==
    dStatus[d] = DeskStatusCreate /\ Seated(d) # {} /\ Seated(d) \subseteq rdy

ReadyStepsSyncFirst(d, u) ==
    << <<"broadcast", "onSyncDesk", d, ready[d]>>, <<"ready", "self", d>>,
       <<"checkStart", "", d>> >>

\* Ready, lines 538-542: prepare.ready, then syncDeskStatus, then checkStart.
\* The status sync carries the readiness it reads when it is sent.
ReadySteps(d, u) ==
    << <<"ready", "self", d>>, <<"broadcast", "onSyncDesk", d, ready[d] \cup {u}>>,
       <<"checkStart", "", d>> >>

Ready(s) ==
    /\ s \notin sClosed
    /\ sPlayer[s] # 0
    /\ LET d == pDesk[sPlayer[s]] IN
       IF d = 0
       THEN /\ out' = <<<<"fault", "Ready", 0>>>>
            /\ UNCHANGED <<ready, dStatus>>
       ELSE /\ ready' = [ready EXCEPT ![d] = @ \cup {sUid[s]}]
            /\ out' = ReadySteps(d, sUid[s])
            /\ dStatus' = IF StartsNow(d, ready[d] \cup {sUid[s]})
                          THEN [dStatus EXCEPT ![d] = DeskStatusPlaying]
                          ELSE dStatus
    /\ UNCHANGED <<sessVars, playerVars, voteVars, chanVars>>
    /\ UNCHANGED <<desks, dPlayers, dGroup, dMode, dOld, nextNo>>

ClientInitCompleted(s, isReEnter) ==
    /\ s \notin sClosed
    /\ sPlayer[s] # 0
    /\ LET d == pDesk[sPlayer[s]] IN
       IF d = 0
       THEN /\ out' = <<<<"fault", "ClientInitCompleted", 0>>>>
            /\ UNCHANGED dGroup
       ELSE /\ dGroup' = IF sUid[s] \in Seated(d) /\ pSession[sUid[s]] # 0
                         THEN [dGroup EXCEPT ![d] = @ \cup {pSession[sUid[s]]}]
                         ELSE dGroup
            /\ out' = IF isReEnter THEN <<>>
                      ELSE <<<<"broadcast", "onSyncDesk", d>>>>
    /\ UNCHANGED <<sessVars, playerVars, voteVars, chanVars>>
    /\ UNCHANGED <<desks, dStatus, dPlayers, dMode, dOld, ready, nextNo>>

UnCompleteDesk(s) ==
    /\ s \notin sClosed
    /\ sPlayer[s] # 0
    /\ LET p == sPlayer[s]
           d == pDesk[p]
       IN
       IF d = 0
       THEN /\ out' = <<<<"response", "nodesk", 0>>>>
            /\ UNCHANGED <<pDesk, desks>>
       ELSE IF isDestroy(d)
       THEN /\ desks' = desks \ {d}
            /\ pDesk' = [pDesk EXCEPT ![p] = 0]
            /\ out' = <<<<"response", "nodesk", 0>>>>
       ELSE /\ out' = <<<<"response", "exist", d>>>>
            /\ UNCHANGED <<pDesk, desks>>
    /\ UNCHANGED <<sessVars, players, pSession, voteVars, chanVars>>
    /\ UNCHANGED <<dStatus, dPlayers, dGroup, dMode, dOld, ready, nextNo>>

\* Desk.onPlayerReJoin: the room re-admits the session of a player that has a
\* seat in it: the session joins the broadcast group, the seat is online.
ReAdmitted(s, d) == sUid[s] \in Seated(d)

onPlayerReJoin(s, d) ==
    /\ dGroup' = IF ReAdmitted(s, d) THEN [dGroup EXCEPT ![d] = @ \cup {s}] ELSE dGroup
    /\ offline' = IF ReAdmitted(s, d) THEN [offline EXCEPT ![d] = @ \ {sUid[s]}]
                  ELSE offline

\* ReJoin, line 281: the room named is unknown or destroyed.
ReJoinRefused(d) == d \notin desks \/ isDestroy(d)

ReJoin(s, d) ==
    /\ s \notin sClosed
    /\ sPlayer[s] # 0
    /\ IF ReJoinRefused(d)
       THEN /\ out' = <<<<"request", "ReJoin", d, sUid[s]>>,
                        <<"response", "dissolved", d>>>>
            /\ UNCHANGED <<dGroup, offline>>
       ELSE /\ out' = <<<<"request", "ReJoin", d, sUid[s]>>, <<"rejoin", "", d>>>>
            /\ onPlayerReJoin(s, d)
    /\ UNCHANGED <<sessVars, playerVars, chanVars>>
    /\ UNCHANGED <<desks, dStatus, dPlayers, dMode, dOld, ready, nextNo>>
    /\ UNCHANGED <<dissolving, restTime, agreed>>

ReEnterMismatchNever(p, d) == FALSE

\* ReEnter, line 312: the room named is not the room the player records.
ReEnterMismatch(p, d) == pDesk[p] # d

ReEnter(s, d) ==
    /\ s \notin sClosed
    /\ sPlayer[s] # 0
    /\ LET p == sPlayer[s] IN
       IF pDesk[p] = 0
       THEN /\ out' = <<<<"request", "ReEnter", d, p>>, <<"log", "ReEnter:nodesk", p>>>>
            /\ UNCHANGED <<dGroup, offline>>
       ELSE IF ReEnterMismatch(p, d)
       THEN /\ out' = <<<<"request", "ReEnter", d, p>>,
                        <<"log", "ReEnter:mismatch", p>>>>
            /\ UNCHANGED <<dGroup, offline>>
       ELSE /\ out' = <<<<"request", "ReEnter", d, p>>, <<"rejoin", "", pDesk[p]>>>>
            /\ onPlayerReJoin(s, pDesk[p])
    /\ UNCHANGED <<sessVars, playerVars, chanVars>>
    /\ UNCHANGED <<desks, dStatus, dPlayers, dMode, dOld, ready, nextNo>>
    /\ UNCHANGED <<dissolving, restTime, agreed>>

\* The game of a room ends after its last round: the room is marked
\* destroyed and waits in the registry for the sweep.
GameOver(d) ==
    /\ dStatus[d] = DeskStatusPlaying
    /\ dStatus' = [dStatus EXCEPT ![d] = DeskStatusDestory]
    /\ out' = <<>>
    /\ UNCHANGED <<sessVars, playerVars, voteVars, chanVars>>
    /\ UNCHANGED <<desks, dPlayers, dGroup, dMode, dOld, ready, nextNo>>

\* ----------------------------------------------------------- dissolve vote
Dissolve(s) ==
    /\ s \notin sClosed
    /\ sPlayer[s] # 0
    /\ LET d == pDesk[sPlayer[s]] IN
       IF d = 0 \/ isDestroy(d)
       THEN /\ out' = <<<<"push", "onDissolveSuccess", 0>>>>
            /\ UNCHANGED voteVars
       ELSE IF dissolving[d]
       THEN /\ out' = <<>>
            /\ UNCHANGED voteVars
       ELSE /\ dissolving' = [dissolving EXCEPT ![d] = TRUE]
            /\ restTime' = [restTime EXCEPT ![d] = applyDissolveRestTime]
            /\ agreed' = [agreed EXCEPT ![d] = @ \cup {sUid[s]}]
            /\ out' = <<<<"broadcast", "onDissolveAgreement", d>>>>
            /\ UNCHANGED offline
    /\ UNCHANGED <<sessVars, playerVars, deskVars, chanVars>>

RestTimeSetOnAgree(t) == agreeDissolveRestTime

\* DissolveStatus, lines 736-738: an agreement shortens the countdown.
RestTimeAfterAgree(t) ==
    IF t > agreeDissolveRestTime THEN agreeDissolveRestTime ELSE t

\* DissolveStatus, line 747: the agreements still missing.
AgreementMissing(d, agr) == Cardinality(agr) < totalPlayerCount(d)

RefusesInverted(result) == result

\* DissolveStatus, line 722: a refusal.
Refuses(result) == ~result

\* DissolveStatus, line 709: the request is logged.
DissolveStatusLogged(result) == <<"log", "DissolveStatus", IF result THEN 1 ELSE 0>>

DissolveStatus(s, result) ==
    /\ s \notin sClosed
    /\ sPlayer[s] # 0
    /\ LET d == pDesk[sPlayer[s]] IN
       IF d = 0 \/ isDestroy(d)
       THEN /\ out' = <<DissolveStatusLogged(result),
                        <<"push", "onDissolveSuccess", 0>>>>
            /\ UNCHANGED <<voteVars, pDesk, desks, dStatus, dPlayers, dGroup, ready>>
       ELSE IF Refuses(result)
       THEN /\ agreed' = [agreed EXCEPT ![d] = {}]
            /\ dissolving' = [dissolving EXCEPT ![d] = FALSE]
            /\ out' = <<DissolveStatusLogged(result),
                        <<"broadcast", "onDissolveFailure", d>>>>
            /\ UNCHANGED <<restTime, offline, pDesk, desks, dStatus, dPlayers,
                           dGroup, ready>>
       ELSE LET agr == agreed[d] \cup {sUid[s]} IN
            /\ agreed' = [agreed EXCEPT ![d] = agr]
            /\ restTime' = [restTime EXCEPT ![d] = RestTimeAfterAgree(@)]
            /\ IF AgreementMissing(d, agr)
               THEN /\ out' = <<DissolveStatusLogged(result),
                                <<"broadcast", "onDissolveStatus", d>>>>
                    /\ UNCHANGED <<dissolving, offline, pDesk, desks, dStatus,
                                   dPlayers, dGroup, ready>>
               ELSE /\ out' = <<DissolveStatusLogged(result),
                                <<"broadcast", "onDissolveStatus", d>>,
                                <<"destroy", "", d>>>>
                    /\ dissolving' = [dissolving EXCEPT ![d] = FALSE]
                    /\ pDesk' = SeatsFreed({d})
                    /\ desks' = RegistryWithout({d})
                    /\ dStatus' = [dStatus EXCEPT ![d] = DeskStatusDestory]
                    /\ dPlayers' = [dPlayers EXCEPT ![d] = <<>>]
                    /\ dGroup' = [dGroup EXCEPT ![d] = {}]
                    /\ ready' = [ready EXCEPT ![d] = {}]
                    /\ UNCHANGED offline
    /\ UNCHANGED <<sessVars, players, pSession, chanVars, dMode, dOld, nextNo>>

\* One step of the vote's countdown timer.
Tick(d) ==
    /\ dissolving[d]
    /\ restTime[d] > 0
    /\ restTime' = [restTime EXCEPT ![d] = Max(0, @ - TickStep)]
    /\ out' = <<>>
    /\ UNCHANGED <<sessVars, playerVars, deskVars, chanVars>>
    /\ UNCHANGED <<dissolving, agreed, offline>>

\* ------------------------------------------------------------------- sweep
\* A room's creation time falls behind the 24 hour deadline.
Age(d) ==
    /\ dStatus[d] # NoDesk
    /\ ~dOld[d]
    /\ dOld' = [dOld EXCEPT ![d] = TRUE]
    /\ out' = <<>>
    /\ UNCHANGED <<sessVars, playerVars, voteVars, chanVars>>
    /\ UNCHANGED <<desks, dStatus, dPlayers, dGroup, dMode, ready, nextNo>>

SweepSelectsDestroyed == {d \in desks : isDestroy(d)}

\* The sweep timer, line 100: the rooms it destroys.
SweepSelects == {d \in desks : isDestroy(d) \/ dOld[d]}

\* The sweep timer, lines 108-115: the rooms left are dumped to the log when
\* there is one, and the counts go to the database.
SweepReport(dCount) ==
    (IF dCount < 1 THEN <<>> ELSE <<<<"log", "dumpDeskInfo", dCount>>>>)
    \o <<<<"report", "InsertOnline", dCount>>>>

Sweep ==
    /\ pDesk' = SeatsFreed(SweepSelects)
    /\ desks' = RegistryWithout(SweepSelects)
    /\ dStatus' = [d \in DeskNos |->
                     IF d \in SweepSelects THEN DeskStatusDestory ELSE dStatus[d]]
    /\ dPlayers' = [d \in DeskNos |->
                     IF d \in SweepSelects THEN <<>> ELSE dPlayers[d]]
    /\ dGroup' = [d \in DeskNos |-> IF d \in SweepSelects THEN {} ELSE dGroup[d]]
    /\ ready' = [d \in DeskNos |-> IF d \in SweepSelects THEN {} ELSE ready[d]]
    /\ out' = [i \in 1..Cardinality(SweepSelects) |-> <<"destroy", "", 0>>]
              \o SweepReport(Cardinality(RegistryWithout(SweepSelects)))
    /\ UNCHANGED <<sessVars, players, pSession, voteVars, chanVars>>
    /\ UNCHANGED <<dMode, dOld, nextNo>>

\* ------------------------------------------------- administrative requests
EnqueueKick(u) ==
    /\ Len(chKick) < MaxQueue
    /\ chKick' = Append(chKick, u)
    /\ out' = <<>>
    /\ UNCHANGED <<sessVars, playerVars, deskVars, voteVars, chReset, chRecharge, opVars, tileVars>>

EnqueueReset(u) ==
    /\ Len(chReset) < MaxQueue
    /\ chReset' = Append(chReset, u)
    /\ out' = <<>>
    /\ UNCHANGED <<sessVars, playerVars, deskVars, voteVars, chKick, chRecharge, opVars, tileVars>>

EnqueueRecharge(u) ==
    /\ Len(chRecharge) < MaxQueue
    /\ chRecharge' = Append(chRecharge, u)
    /\ out' = <<>>
    /\ UNCHANGED <<sessVars, playerVars, deskVars, voteVars, chKick, chReset, opVars, tileVars>>

\* chKick case, line 90: the player named is online.
KickOnline(u) == u \in players /\ pSession[u] # 0

ResetAllowedConnected(u) == u \in players

\* chReset case, lines 98-104: the reset is carried out.
ResetAllowed(u) == u \in players /\ pSession[u] = 0

\* One case of the timer's select: st is the pass so far (the queues, the
\* room references, the sessions closed, what was done, whether the pass
\* has ended).
KickCase(st) ==
    LET u == Head(st.k) IN
    IF KickOnline(u)
    THEN [st EXCEPT !.k = Tail(@), !.cl = @ \cup {pSession[u]},
                    !.o = Append(@, <<"close", "kick", u>>)]
    ELSE [st EXCEPT !.k = Tail(@), !.o = Append(@, <<"fault", "kick", u>>),
                    !.done = TRUE]

ResetCase(st) ==
    LET u == Head(st.r) IN
    IF ResetAllowed(u)
    THEN [st EXCEPT !.r = Tail(@), !.pd = [@ EXCEPT ![u] = 0],
                    !.o = Append(@, <<"reset", "", u>>)]
    ELSE IF u \in players
    THEN [st EXCEPT !.r = Tail(@), !.o = Append(@, <<"log", "reset:refused", u>>),
                    !.done = TRUE]
    ELSE [st EXCEPT !.r = Tail(@), !.done = TRUE]

RechargeCase(st) ==
    LET u == Head(st.c) IN
    IF u \notin players
    THEN [st EXCEPT !.c = Tail(@), !.o = Append(@, <<"fault", "recharge", u>>),
                    !.done = TRUE]
    ELSE IF pSession[u] # 0
    THEN [st EXCEPT !.c = Tail(@),
                    !.o = Append(@, <<"push", "onCoinChange", u>>)]
    ELSE [st EXCEPT !.c = Tail(@)]

\* The timer's loop: select takes any ready case until none is ready or a
\* case leaves the function.
RECURSIVE Drain(_)
Drain(st) ==
    IF st.done \/ (st.k = <<>> /\ st.r = <<>> /\ st.c = <<>>)
    THEN {st}
    ELSE UNION ({Drain(KickCase(st)) : x \in {y \in {1} : st.k # <<>>}}
                \cup {Drain(ResetCase(st)) : x \in {y \in {1} : st.r # <<>>}}
                \cup {Drain(RechargeCase(st)) : x \in {y \in {1} : st.c # <<>>}})

AdminTick ==
    \E f \in Drain([k |-> chKick, r |-> chReset, c |-> chRecharge, pd |-> pDesk,
                    cl |-> {}, o |-> <<>>, done |-> FALSE]) :
        /\ chKick' = f.k
        /\ chReset' = f.r
        /\ chRecharge' = f.c
        /\ pDesk' = f.pd
        /\ sClosed' = ClosedAfter(f.cl)
        /\ closing' = ClosingAfter(f.cl)
        /\ out' = f.o
        /\ UNCHANGED <<sUid, sPlayer, group, players, pSession, deskVars, voteVars, opVars, tileVars>>

\* -------------------------------------------------------------- operations
\* The send on the player's operation channel goes through at once.
OpSendReady(u) == Len(chOperation[u]) < MaxOps

\* OpChoose, lines 509-521: the choice is logged and sent on the player's
\* operation channel; the send waits while the channel is full.
OpChoose(s, op) ==
    /\ s \notin sClosed
    /\ sPlayer[s] # 0
    /\ sending[s] = <<>>
    /\ LET p == sPlayer[s] IN
       /\ out' = <<<<"log", "OpChoose", p>>>>
       /\ IF OpSendReady(p)
          THEN /\ chOperation' = [chOperation EXCEPT ![p] = Append(@, op)]
               /\ UNCHANGED sending
          ELSE /\ sending' = [sending EXCEPT ![s] = <<p, op>>]
               /\ UNCHANGED chOperation
    /\ UNCHANGED <<sessVars, playerVars, deskVars, voteVars>>
    /\ UNCHANGED <<chKick, chReset, chRecharge, tileVars>>

\* The senders waiting on player u's operation channel.
Senders(u) == {s \in Sessions : sending[s] # <<>> /\ sending[s][1] = u}

\* The room's play loop takes the oldest choice of player u; a waiting send,
\* if there is one, then goes through and its handler returns.
TakeOperation(u) ==
    /\ chOperation[u] # <<>>
    /\ IF Senders(u) = {}
       THEN /\ chOperation' = [chOperation EXCEPT ![u] = Tail(@)]
            /\ UNCHANGED sending
       ELSE \E s \in Senders(u) :
            /\ chOperation' = [chOperation EXCEPT ![u] = Append(Tail(@), sending[s][2])]
            /\ sending' = [sending EXCEPT ![s] = <<>>]
    /\ out' = <<<<"take", "operation", u>>>>
    /\ UNCHANGED <<sessVars, playerVars, deskVars, voteVars>>
    /\ UNCHANGED <<chKick, chReset, chRecharge, tileVars>>

\* --------------------------------------------------------- hand evaluation
TileIndexes == 0..MaxTileIndex

\* The tiles a hand is made of: index 0 and the multiples of 10 are no tiles.
LegalTiles == {i \in TileIndexes : i % 10 # 0}

\* The hands: the evaluation counts the tiles of a hand (NewStats), so each
\* hand is given once, in ascending order.
Hands ==
    {h \in UNION {[1..n -> LegalTiles] : n \in 0..MaxHand} :
        \A k \in 1..(Len(h) - 1) : h[k] <= h[k + 1]}

\* NewStats: how many copies of each tile the list holds.
NewStats(tiles) ==
    [i \in TileIndexes |-> Cardinality({k \in 1..Len(tiles) : tiles[k] = i})]

\* isQiDui: every tile held is held two or four times, seven pairs in all.
isQiDui(ms) ==
    /\ \A i \in TileIndexes : ms[i] \in {0, 2, 4}
    /\ Cardinality({i \in TileIndexes : ms[i] = 2})
         + 2 * Cardinality({i \in TileIndexes : ms[i] = 4}) = 7

\* The tiles counted by ms are melds of three: triples of one tile and runs
\* of three ranks of one suit.
RECURSIVE Melds(_)
Melds(ms) ==
    IF \A i \in TileIndexes : ms[i] = 0 THEN TRUE
    ELSE LET i == CHOOSE x \in TileIndexes :
                      ms[x] > 0 /\ \A y \in TileIndexes : ms[y] > 0 => x <= y
         IN
         \/ /\ ms[i] >= 3
            /\ Melds([ms EXCEPT ![i] = @ - 3])
         \/ /\ i % 10 <= 7
            /\ i + 2 <= MaxTileIndex
            /\ ms[i + 1] > 0
            /\ ms[i + 2] > 0
            /\ Melds([ms EXCEPT ![i] = @ - 1, ![i + 1] = @ - 1, ![i + 2] = @ - 1])

\* CheckWin: the tiles are melds of three and one pair, or seven pairs.
CheckWin(tiles) ==
    LET ms == NewStats(tiles) IN
    \/ isQiDui(ms)
    \/ /\ Len(tiles) % 3 = 2
       /\ \E i \in TileIndexes : ms[i] >= 2 /\ Melds([ms EXCEPT ![i] = @ - 2])

\* CanHu, lines 280-283.
CanHu(hand, discard) == CheckWin(Append(hand, discard))

SkippedFives(i) == i % 5 = 0

\* IsTing and TingTiles, lines 295 and 317: the indexes the scan passes over.
Skipped(i) == i % 10 = 0

\* IsTing, lines 292-305: the scan from index i on, left at the first win.
RECURSIVE IsTingFrom(_, _)
IsTingFrom(hand, i) ==
    IF i > MaxTileIndex THEN FALSE
    ELSE IF Skipped(i) THEN IsTingFrom(hand, i + 1)
    ELSE IF CheckWin(Append(hand, i)) THEN TRUE
    ELSE IsTingFrom(hand, i + 1)

IsTing(hand) == IsTingFrom(hand, 0)

\* TingTiles, lines 308-330: the scan from index i on, the winning indexes
\* appended to the result in turn.
RECURSIVE TingTilesFrom(_, _, _)
TingTilesFrom(hand, i, acc) ==
    IF i > MaxTileIndex THEN acc
    ELSE IF Skipped(i) THEN TingTilesFrom(hand, i + 1, acc)
    ELSE TingTilesFrom(hand, i + 1,
                       IF CheckWin(Append(hand, i)) THEN Append(acc, i) ELSE acc)

TingTiles(hand) == TingTilesFrom(hand, 0, <<>>)

\* The room asks which tiles complete the hand.
TingTilesCall ==
    /\ "TingTiles" \notin called
    /\ rts' = TingTiles(onHand)
    /\ called' = called \cup {"TingTiles"}
    /\ UNCHANGED <<sessVars, playerVars, deskVars, voteVars>>
    /\ UNCHANGED <<chKick, chReset, chRecharge, opVars, onHand, ting, out>>

\* The room asks whether any tile completes the hand.
IsTingCall ==
    /\ "IsTing" \notin called
    /\ ting' = IsTing(onHand)
    /\ called' = called \cup {"IsTing"}
    /\ UNCHANGED <<sessVars, playerVars, deskVars, voteVars>>
    /\ UNCHANGED <<chKick, chReset, chRecharge, opVars, onHand, rts, out>>

\* The evaluation of any hand of at most MaxHand tiles.
InitTing ==
    /\ InitServer
    /\ onHand \in Hands
    /\ NotEvaluated

NextTing ==
    \/ TingTilesCall
    \/ IsTingCall
SpecTing == InitTing /\ [][NextTing]_vars

\* --------------------------------------------- pause, resume, voice, qi pai
\* Pause, Resume and QiPaiFinished, lines 337-340, 366-369 and 403-407: a
\* player without a room is logged and nothing else is done.
NotInRoomLogged(h, p) == <<"log", h, p>>

\* Pause, lines 325-346: the player's online flag in the room is turned off.
Pause(s) ==
    /\ s \notin sClosed
    /\ sPlayer[s] # 0
    /\ LET p == sPlayer[s]
           d == pDesk[p]
       IN
       IF d = 0
       THEN /\ out' = <<NotInRoomLogged("Pause:nodesk", p)>>
            /\ UNCHANGED offline
       ELSE /\ offline' = [offline EXCEPT ![d] = @ \cup {sUid[s]}]
            /\ out' = <<<<"log", "Pause", p>>>>
    /\ UNCHANGED <<sessVars, playerVars, deskVars, chanVars>>
    /\ UNCHANGED <<dissolving, restTime, agreed>>

\* Resume, lines 354-388: the online flag is turned on again; in a full room
\* with a vote the vote's status is broadcast afresh.
Resume(s) ==
    /\ s \notin sClosed
    /\ sPlayer[s] # 0
    /\ LET p == sPlayer[s]
           d == pDesk[p]
       IN
       IF d = 0
       THEN /\ out' = <<NotInRoomLogged("Resume:nodesk", p)>>
            /\ UNCHANGED offline
       ELSE IF sUid[s] \notin offline[d]
       THEN /\ out' = <<>>
            /\ UNCHANGED offline
       ELSE /\ offline' = [offline EXCEPT ![d] = @ \ {sUid[s]}]
            /\ out' = IF Len(dPlayers[d]) < totalPlayerCount(d) \/ ~dissolving[d]
                      THEN <<<<"log", "Resume", p>>>>
                      ELSE <<<<"log", "Resume", p>>,
                             <<"broadcast", "onDissolveStatus", d>>>>
    /\ UNCHANGED <<sessVars, playerVars, deskVars, chanVars>>
    /\ UNCHANGED <<dissolving, restTime, agreed>>

\* QiPaiFinished, lines 397-410: handed to the room of the player.
QiPaiFinished(s) ==
    /\ s \notin sClosed
    /\ sPlayer[s] # 0
    /\ LET p == sPlayer[s]
           d == pDesk[p]
       IN
       out' = IF d = 0 THEN <<NotInRoomLogged("QiPaiFinished:nodesk", p)>>
              ELSE <<<<"qiPaiFinished", "", d>>>>
    /\ UNCHANGED <<sessVars, playerVars, deskVars, voteVars, chanVars>>

\* VoiceMessage and RecordingVoice, lines 760-790: relayed to the room of the
\* player, if the player has one.
Relayed(s, route) ==
    IF pDesk[sPlayer[s]] # 0
    THEN <<<<"broadcast", route, pDesk[sPlayer[s]]>>>> ELSE <<>>

VoiceMessage(s) ==
    /\ s \notin sClosed
    /\ sPlayer[s] # 0
    /\ out' = Relayed(s, "onVoiceMessage")
    /\ UNCHANGED <<sessVars, playerVars, deskVars, voteVars, chanVars>>

RecordingVoice(s) ==
    /\ s \notin sClosed
    /\ sPlayer[s] # 0
    /\ out' = Relayed(s, "onRecordingVoice")
    /\ UNCHANGED <<sessVars, playerVars, deskVars, voteVars, chanVars>>

\* --------------------------------------------------------------------- all
Next ==
    \/ \E s \in Sessions, u \in Uids : Login(s, u)
    \/ \E s \in Sessions, u \in Uids : ReConnect(s, u)
    \/ \E s \in Sessions : Disconnect(s)
    \/ \E s \in Sessions : OnClosed(s)
    \/ \E s \in Sessions, m \in Modes, r \in CreateReasons : CreateDesk(s, m, r)
    \/ \E s \in Sessions, d \in DeskNos, e, b \in BOOLEAN : Join(s, d, e, b)
    \/ \E s \in Sessions, b \in BOOLEAN : Exit(s, b)
    \/ \E s \in Sessions : Ready(s)
    \/ \E s \in Sessions, b \in BOOLEAN : ClientInitCompleted(s, b)
    \/ \E s \in Sessions : UnCompleteDesk(s)
    \/ \E s \in Sessions, d \in DeskNos : ReJoin(s, d)
    \/ \E s \in Sessions, d \in DeskNos : ReEnter(s, d)
    \/ \E d \in DeskNos : GameOver(d)
    \/ \E s \in Sessions : Dissolve(s)
    \/ \E s \in Sessions, b \in BOOLEAN : DissolveStatus(s, b)
    \/ \E d \in DeskNos : Tick(d)
    \/ \E d \in DeskNos : Age(d)
    \/ Sweep
    \/ \E u \in Uids : EnqueueKick(u)
    \/ \E u \in Uids : EnqueueReset(u)
    \/ \E u \in Uids : EnqueueRecharge(u)
    \/ AdminTick
    \/ \E s \in Sessions, op \in OpTypes : OpChoose(s, op)
    \/ \E u \in Uids : TakeOperation(u)
    \/ TingTilesCall
    \/ IsTingCall
    \/ \E s \in Sessions : Pause(s)
    \/ \E s \in Sessions : Resume(s)
    \/ \E s \in Sessions : QiPaiFinished(s)
    \/ \E s \in Sessions : VoiceMessage(s)
    \/ \E s \in Sessions : RecordingVoice(s)

Spec == Init /\ [][Next]_vars

\* ------------------------------------------------- the parts of the program
\* CreateDesk for the first room of the server, accepted by the persistence
\* collaborator.
CreateFirstDesk(s, mode) == nextNo = 1 /\ CreateDesk(s, mode, "ok")

\* The first connection of every client.
FirstSessions == {s \in Sessions : s <= NumPlayers}

\* The handlers of a session's life.
SessionOps ==
    \/ \E s \in Sessions, u \in Uids : Login(s, u)
    \/ \E s \in Sessions, u \in Uids : ReConnect(s, u)
    \/ \E s \in Sessions : Disconnect(s)
    \/ \E s \in Sessions : OnClosed(s)

\* Sessions and seating in several rooms, with every request acceptable to
\* the persistence collaborator.
NextRebind ==
    \/ SessionOps
    \/ \E s \in Sessions, m \in Modes : CreateDesk(s, m, "ok")
    \/ \E s \in Sessions, d \in DeskNos : Join(s, d, FALSE, TRUE)
    \/ \E s \in Sessions : ClientInitCompleted(s, FALSE)
SpecRebind == Init /\ [][NextRebind]_vars

\* Sessions that log in and drop around the first room created.
NextDisconnect ==
    \/ \E s \in Sessions : Login(s, Owner(s))
    \/ \E s \in Sessions : Disconnect(s)
    \/ \E s \in Sessions : OnClosed(s)
    \/ \E s \in FirstSessions : CreateFirstDesk(s, MaxSeats)
    \/ \E s \in FirstSessions, d \in DeskNos : Join(s, d, FALSE, TRUE)
    \/ \E s \in FirstSessions : Ready(s)
    \/ \E s \in FirstSessions : Exit(s, FALSE)
    \/ \E d \in DeskNos : GameOver(d)
SpecDisconnect == Init /\ [][NextDisconnect]_vars

\* The dissolve vote of the first room created, every client on its first
\* connection.
NextVote ==
    \/ \E s \in FirstSessions : Login(s, Owner(s))
    \/ \E s \in FirstSessions, m \in Modes : CreateFirstDesk(s, m)
    \/ \E s \in FirstSessions, d \in DeskNos : Join(s, d, FALSE, TRUE)
    \/ \E s \in FirstSessions : Ready(s)
    \/ \E s \in FirstSessions, b \in BOOLEAN : Exit(s, b)
    \/ \E s \in FirstSessions : Dissolve(s)
    \/ \E s \in FirstSessions, b \in BOOLEAN : DissolveStatus(s, b)
    \/ \E d \in DeskNos : Tick(d)
SpecVote == Init /\ [][NextVote]_vars

\* Seating, readiness and leaving in the first room created, every client on
\* its first connection.
NextExit ==
    \/ \E s \in FirstSessions : Login(s, Owner(s))
    \/ \E s \in FirstSessions, m \in Modes : CreateFirstDesk(s, m)
    \/ \E s \in FirstSessions, d \in DeskNos, e, b \in BOOLEAN : Join(s, d, e, b)
    \/ \E s \in FirstSessions : ClientInitCompleted(s, FALSE)
    \/ \E s \in FirstSessions : Ready(s)
    \/ \E s \in FirstSessions, b \in BOOLEAN : Exit(s, b)
    \/ \E d \in DeskNos : GameOver(d)
SpecExit == Init /\ [][NextExit]_vars

\* Clients that drop, come back and ask to be let into a room again; every
\* client creates its own room.
NextRejoin ==
    \/ \E s \in Sessions : Login(s, Owner(s))
    \/ \E s \in Sessions : Disconnect(s)
    \/ \E s \in Sessions : OnClosed(s)
    \/ \E s \in FirstSessions : CreateDesk(s, MaxSeats, "ok")
    \/ \E s \in Sessions, d \in DeskNos : ReJoin(s, d)
    \/ \E s \in Sessions, d \in DeskNos : ReEnter(s, d)
SpecRejoin == Init /\ [][NextRejoin]_vars

\* Rooms that are created, played to their end, grow old and are swept.
NextSweep ==
    \/ \E s \in FirstSessions : Login(s, Owner(s))
    \/ \E s \in FirstSessions : CreateDesk(s, MaxSeats, "ok")
    \/ \E s \in FirstSessions : ClientInitCompleted(s, FALSE)
    \/ \E s \in FirstSessions : Ready(s)
    \/ \E d \in DeskNos : GameOver(d)
    \/ \E d \in DeskNos : Age(d)
    \/ Sweep
SpecSweep == Init /\ [][NextSweep]_vars

\* Administrative requests for clients that log in, take a room and drop.
NextAdmin ==
    \/ \E s \in FirstSessions : Login(s, Owner(s))
    \/ \E s \in FirstSessions : Disconnect(s)
    \/ \E s \in FirstSessions : OnClosed(s)
    \/ \E s \in FirstSessions : CreateFirstDesk(s, MaxSeats)
    \/ \E u \in Uids : EnqueueKick(u)
    \/ \E u \in Uids : EnqueueReset(u)
    \/ \E u \in Uids : EnqueueRecharge(u)
    \/ AdminTick
SpecAdmin == Init /\ [][NextAdmin]_vars

\* Kick and reset requests for clients that log in, take a room and drop.
NextReset ==
    \/ \E s \in FirstSessions : Login(s, Owner(s))
    \/ \E s \in FirstSessions : Disconnect(s)
    \/ \E s \in FirstSessions : OnClosed(s)
    \/ \E s \in FirstSessions : CreateFirstDesk(s, MaxSeats)
    \/ \E u \in Uids : EnqueueKick(u)
    \/ \E u \in Uids : EnqueueReset(u)
    \/ AdminTick
SpecReset == Init /\ [][NextReset]_vars

\* Clients that post choices faster than the room's play loop takes them.
NextChoose ==
    \/ \E s \in Sessions : Login(s, Owner(s))
    \/ \E s \in Sessions : Disconnect(s)
    \/ \E s \in Sessions : OnClosed(s)
    \/ \E s \in Sessions, op \in OpTypes : OpChoose(s, op)
    \/ \E u \in Uids : TakeOperation(u)
SpecChoose == Init /\ [][NextChoose]_vars

\* Clients that log in and reconnect, also with a uid no session can be
\* bound to.
NextLogin ==
    \/ \E s \in Sessions, u \in PlayerIds : Login(s, u)
    \/ \E s \in Sessions, u \in PlayerIds : ReConnect(s, u)
    \/ \E s \in Sessions : Disconnect(s)
    \/ \E s \in Sessions : OnClosed(s)
SpecLogin == Init /\ [][NextLogin]_vars

\* Clients that ask for rooms, with good and bad requests, and leave them.
NextCreate ==
    \/ \E s \in FirstSessions : Login(s, Owner(s))
    \/ \E s \in FirstSessions, m \in Modes, r \in CreateReasons : CreateDesk(s, m, r)
    \/ \E s \in FirstSessions : Exit(s, FALSE)
SpecCreate == Init /\ [][NextCreate]_vars

\* Clients that drop, log in again and reconnect on their connections while
\* they hold a seat.
NextReplace ==
    \/ \E s \in Sessions : Login(s, Owner(s))
    \/ \E s \in Sessions : ReConnect(s, Owner(s))
    \/ \E s \in Sessions : Disconnect(s)
    \/ \E s \in Sessions : OnClosed(s)
    \/ \E s \in FirstSessions : CreateFirstDesk(s, MaxSeats)
SpecReplace == Init /\ [][NextReplace]_vars

\* The commands a client sends about its room, with and without a room.
NextRoomCommands ==
    \/ \E s \in FirstSessions : Login(s, Owner(s))
    \/ \E s \in FirstSessions : CreateFirstDesk(s, MaxSeats)
    \/ \E s \in FirstSessions, d \in DeskNos : Join(s, d, FALSE, TRUE)
    \/ \E s \in FirstSessions : Dissolve(s)
    \/ \E s \in FirstSessions : Ready(s)
    \/ \E s \in FirstSessions, b \in BOOLEAN : ClientInitCompleted(s, b)
    \/ \E s \in FirstSessions : Pause(s)
    \/ \E s \in FirstSessions : Resume(s)
    \/ \E s \in FirstSessions : QiPaiFinished(s)
    \/ \E s \in FirstSessions : VoiceMessage(s)
    \/ \E s \in FirstSessions : RecordingVoice(s)
SpecRoomCommands == Init /\ [][NextRoomCommands]_vars

\* ------------------------------------------------------------------ claims
Last(q) == q[Len(q)]

Kinds(q) == {q[i][1] : i \in 1..Len(q)}

\* The place of the first event of a kind in what a handler did (0: none).
Place(q, kind) ==
    IF kind \in Kinds(q)
    THEN CHOOSE i \in 1..Len(q) : q[i][1] = kind /\ \A j \in 1..(i - 1) : q[j][1] # kind
    ELSE 0

\* The last handler was a Login of u.
WasLogin(q, u) == q # <<>> /\ Last(q) = <<"response", "login", u>>

\* C1: when a Login of a player directly follows a Login of the same player
\* on another session, the player is bound to the second session only, and
\* the first session is closed and is in no room's broadcast group.
C1_LoginTwice ==
    [][\A u \in Uids :
         (WasLogin(out, u) /\ WasLogin(out', u) /\ pSession[u] # pSession'[u])
         => /\ {s \in Sessions : s \notin sClosed' /\ sPlayer'[s] = u} = {pSession'[u]}
            /\ pSession[u] \in sClosed'
            /\ \A d \in DeskNos : pSession[u] \notin dGroup'[d]]_vars

\* The rooms in which u has a seat.
RoomsOf(u) == {d \in DeskNos : u \in Seated(d)}

\* C2: in every reachable state a player has at most one seat, in at most one
\* room.
C2_OneSeat ==
    \A u \in Uids :
        /\ Cardinality(RoomsOf(u)) <= 1
        /\ \A d \in DeskNos :
             Cardinality({i \in 1..Len(dPlayers[d]) : dPlayers[d][i] = u}) <= 1

\* The last handler answered a Join of room d whose client version it
\* accepted.
JoinAnswered(q, d) ==
    /\ Len(q) = 1
    /\ q[1][1] = "response"
    /\ q[1][2] \in {"joined", "full", "club", "notfound"}
    /\ q[1][3] = d

WasDissolveStatus(q, r) == q # <<>> /\ q[1] = <<"log", "DissolveStatus", r>>

\* The handler's first notice was a broadcast to room d.
BroadcastTo(q, d) == Len(q) >= 2 /\ q[2][1] = "broadcast" /\ q[2][3] = d

\* C4: when a DissolveStatus agreement is recorded in a room with an active
\* vote and every seated player has then agreed, the room is destroyed and
\* leaves the registry; and no room is destroyed by a vote a second time.
C4_AllAgreeDissolves ==
    [][\A d \in DeskNos :
         /\ (/\ WasDissolveStatus(out', 1)
             /\ BroadcastTo(out', d)
             /\ dissolving[d]
             /\ Seated(d) # {}
             /\ Seated(d) \subseteq agreed'[d])
            => (isDestroy(d))' /\ d \notin desks'
         /\ (<<"destroy", "", d>> \in Range(out')) => ~isDestroy(d)]_vars

\* C5: when a refusal is recorded in a room, the room is told of the failure,
\* every agree flag of the room is unset, the vote is idle (its countdown no
\* longer runs), and the room is as it was: not destroyed, in the registry,
\* with its seats.
C5_DisagreeResets ==
    [][\A d \in DeskNos :
         (WasDissolveStatus(out', 0) /\ BroadcastTo(out', d))
         => /\ out' = <<out'[1], <<"broadcast", "onDissolveFailure", d>>>>
            /\ agreed'[d] = {}
            /\ ~dissolving'[d]
            /\ ~(isDestroy(d))'
            /\ UNCHANGED <<desks, dStatus, dPlayers, dGroup, pDesk>>]_vars

\* A refusal was recorded in a room whose vote had been started and had one
\* agreement at least.
C5_Witness ==
    \E d \in desks :
        /\ WasDissolveStatus(out, 0)
        /\ BroadcastTo(out, d)
        /\ restTime[d] > 0
        /\ agreed[d] = {}
        /\ Seated(d) # {}

\* C6: a recorded agreement leaves the remaining time of the room's vote at
\* the reduced threshold when it was above it and unchanged otherwise, and no
\* DissolveStatus command increases the remaining time of any room.
C6_CountdownOnlyShortens ==
    [][\A d \in DeskNos :
         /\ (WasDissolveStatus(out', 1) /\ BroadcastTo(out', d))
            => restTime'[d] = IF restTime[d] > agreeDissolveRestTime
                              THEN agreeDissolveRestTime ELSE restTime[d]
         /\ (WasDissolveStatus(out', 1) \/ WasDissolveStatus(out', 0))
            => restTime'[d] <= restTime[d]]_vars

\* An agreement was recorded while the vote was pending with less than the
\* reduced threshold remaining.
C6_Witness ==
    \E d \in desks :
        /\ WasDissolveStatus(out, 1)
        /\ BroadcastTo(out, d)
        /\ dissolving[d]
        /\ restTime[d] > 0
        /\ restTime[d] < agreeDissolveRestTime

\* C7: when ReConnect rebinds, to another session, a known player that has a
\* previous session and a seat in a room, the previous session leaves the room's broadcast group
\* before it is closed, and is closed before the new session is bound.
C7_ReconnectOrder ==
    [][\A u \in Uids :
         (/\ u \in players
          /\ pSession[u] # 0
          /\ pDesk[u] # 0
          /\ u \in Seated(pDesk[u])
          /\ <<"bind", "new", u>> \in Range(out')
          /\ "response" \notin Kinds(out')
          /\ pSession'[u] # pSession[u])
         => /\ 0 < Place(out', "leave")
            /\ Place(out', "leave") < Place(out', "close")
            /\ Place(out', "close") < Place(out', "bind")]_vars

\* C8: a player leaves the registry only in the handling of a closed session
\* bound to it, and only while it has no room or its room is destroyed; the
\* handling of a closed session of a player seated in a live room unsets the
\* player's session and keeps the player in the registry and every seat.
C8_RegistryRemoval ==
    [][/\ \A u \in players :
            u \notin players'
            => \E s \in closing \ closing' :
                   sUid[s] = u /\ (pDesk[u] = 0 \/ isDestroy(pDesk[u]))
       /\ \A s \in closing \ closing' :
            (/\ sUid[s] > 0
             /\ sPlayer[s] # 0
             /\ pDesk[sPlayer[s]] # 0
             /\ ~isDestroy(pDesk[sPlayer[s]]))
            => /\ sPlayer[s] \in players'
               /\ pSession'[sPlayer[s]] = 0
               /\ dPlayers' = dPlayers
               /\ pDesk' = pDesk]_vars

\* The session of a player seated in a live room was closed: the player is
\* in the registry without a session, and has its seat.
C8_Witness ==
    \E d \in desks : \E u \in Seated(d) :
        /\ out = <<<<"leave", "closed", d>>>>
        /\ ~isDestroy(d)
        /\ u \in players
        /\ pSession[u] = 0
        /\ pDesk[u] = d

\* The log entry of an Exit request.
IsExitLog(e) ==
    e[1] = "log" /\ e[2] \in {"Exit{IsDestroy:true}", "Exit{IsDestroy:false}"}

\* The last handler was an Exit of player u.
WasExit(q, u) == q # <<>> /\ IsExitLog(q[1]) /\ q[1][3] = u

\* C9: an Exit of a player whose room is Playing sends no push and no
\* broadcast and changes nothing of the rooms, the players, the sessions and
\* the votes.
C9_ExitWhilePlaying ==
    [][\A u \in Uids :
         (WasExit(out', u) /\ pDesk[u] # 0 /\ dStatus[pDesk[u]] = DeskStatusPlaying)
         => /\ \A i \in 1..Len(out') : out'[i][1] \notin {"push", "broadcast"}
            /\ UNCHANGED <<sessVars, playerVars, deskVars, voteVars, chanVars>>]_vars

\* A seated player sent Exit while its room was Playing.
C9_Witness ==
    \E u \in Uids :
        /\ WasExit(out, u)
        /\ pDesk[u] # 0
        /\ dStatus[pDesk[u]] = DeskStatusPlaying
        /\ u \in Seated(pDesk[u])

\* C10: an Exit of a player whose room is in status Create sends, after its
\* log entry, the leave notice to the player when the player had not readied,
\* and then, last, the broadcast to the room: onDissolve when the destroy
\* flag is set, onPlayerExit otherwise.
C10_ExitNoticeOrder ==
    [][\A u \in Uids :
         (WasExit(out', u) /\ pDesk[u] # 0 /\ dStatus[pDesk[u]] = DeskStatusCreate)
         => LET d == pDesk[u]
                notice == <<"broadcast",
                            IF out'[1][2] = "Exit{IsDestroy:true}"
                            THEN "onDissolve" ELSE "onPlayerExit", d>>
            IN
            IF u \notin ready[d]
            THEN out' = <<out'[1], <<"push", "onDissolve", d>>, notice>>
            ELSE out' = <<out'[1], notice>>]_vars

\* A player that had not readied left with the destroy flag set.
C10_Witness ==
    \E u \in Uids, d \in desks :
        out = <<<<"log", "Exit{IsDestroy:true}", u>>, <<"push", "onDissolve", d>>,
                <<"broadcast", "onDissolve", d>>>>

\* The last handler answered the request of player u to handler h, naming
\* room d.
Requested(q, h, d, u) == q # <<>> /\ q[1] = <<"request", h, d, u>>

\* C11: a ReEnter of a player that records no room, or that names a room
\* other than the one the player records, writes to the log only: it enters
\* no room's rejoin handling and changes no room, player, session, group or
\* vote.  A ReEnter naming the recorded room enters that room's handling.
C11_ReEnterNoop ==
    [][\A u \in Uids, d \in DeskNos :
         Requested(out', "ReEnter", d, u)
         => IF pDesk[u] = 0 \/ pDesk[u] # d
            THEN /\ Len(out') = 2
                 /\ out'[2][1] = "log"
                 /\ UNCHANGED <<sessVars, playerVars, deskVars, voteVars, chanVars>>
            ELSE out' = <<out'[1], <<"rejoin", "", d>>>>]_vars

\* A player that records a room asked to re-enter another, live, room.
C11_Witness ==
    \E u \in Uids, d \in desks :
        /\ Requested(out, "ReEnter", d, u)
        /\ pDesk[u] # 0
        /\ pDesk[u] # d
        /\ ~isDestroy(d)

\* C12: a ReJoin of a player that records a room, naming another room, is
\* turned away: it enters no room's rejoin handling and changes no room,
\* player, session, group or vote.
C12_ReJoinMismatch ==
    [][\A u \in Uids, d \in DeskNos :
         (Requested(out', "ReJoin", d, u) /\ pDesk[u] # 0 /\ pDesk[u] # d)
         => /\ "rejoin" \notin Kinds(out')
            /\ UNCHANGED <<sessVars, playerVars, deskVars, voteVars, chanVars>>]_vars

\* The last handler was a pass of the sweep.
WasSweep(q) == q # <<>> /\ Last(q)[1] = "report" /\ Last(q)[2] = "InsertOnline"

\* C13: after a pass of the sweep, every room of the registry that was
\* destroyed or older than 24 hours when the pass began is out of the
\* registry and destroyed, with no seat and an empty broadcast group, and no
\* player records it; every other room is in the registry as it was.
C13_SweepRemoves ==
    [][WasSweep(out')
       => /\ \A d \in desks :
               IF isDestroy(d) \/ dOld[d]
               THEN /\ d \notin desks'
                    /\ (isDestroy(d))'
                    /\ dPlayers'[d] = <<>>
                    /\ dGroup'[d] = {}
                    /\ \A u \in Uids : pDesk'[u] # d
               ELSE /\ d \in desks'
                    /\ dStatus'[d] = dStatus[d]
                    /\ dPlayers'[d] = dPlayers[d]
                    /\ dGroup'[d] = dGroup[d]
                    /\ \A u \in Seated(d) : pDesk'[u] = pDesk[u]
          /\ desks' \subseteq desks]_vars

\* A pass removed a room that had grown old and kept a live one.
C13_Witness ==
    /\ WasSweep(out)
    /\ "destroy" \in Kinds(out)
    /\ \E d \in DeskNos : dOld[d] /\ isDestroy(d) /\ d \notin desks
    /\ \E d \in desks : ~isDestroy(d) /\ Seated(d) # {}

\* C14: when a pass of the sweep has ended, the registry holds no room that
\* a pass selects (none destroyed, none older than 24 hours); and a pass that
\* directly follows a pass destroys no room and changes no room, player,
\* session or vote.
C14_SweepTwice ==
    /\ [](WasSweep(out) => \A d \in desks : ~isDestroy(d) /\ ~dOld[d])
    /\ [][(WasSweep(out) /\ WasSweep(out'))
          => /\ "destroy" \notin Kinds(out')
             /\ UNCHANGED <<sessVars, playerVars, deskVars, voteVars, chanVars>>]_vars

\* A second pass ran directly after a pass that had destroyed a room.
C14_Witness ==
    /\ WasSweep(out)
    /\ "destroy" \notin Kinds(out)
    /\ \E d \in DeskNos : isDestroy(d) /\ d \notin desks

\* The step is a pass of the administrative timer that took a request.
AdminPass ==
    \/ Len(chKick') < Len(chKick)
    \/ Len(chReset') < Len(chReset)
    \/ Len(chRecharge') < Len(chRecharge)

\* C15: when a pass of the administrative timer ends, the kick, reset and
\* recharge queues are empty.
C15_TickDrains ==
    [][AdminPass => chKick' = <<>> /\ chReset' = <<>> /\ chRecharge' = <<>>]_vars

\* C16: a pass of the administrative timer changes the room a player records
\* only by clearing it, for a player of the registry without a session; it
\* changes no player's session, and a reset refused because the player is
\* connected leaves the player's room as it was.
C16_ResetOnlyOffline ==
    [][AdminPass
       => /\ pSession' = pSession
          /\ \A u \in Uids :
               /\ pDesk'[u] # pDesk[u]
                  => u \in players /\ pSession[u] = 0 /\ pDesk'[u] = 0
               /\ <<"log", "reset:refused", u>> \in Range(out')
                  => pSession[u] # 0 /\ pDesk'[u] = pDesk[u]
               /\ <<"reset", "", u>> \in Range(out')
                  => pSession[u] = 0 /\ pDesk'[u] = 0]_vars

\* A reset of a connected player that records a room was refused.
C16_Witness ==
    \E u \in players :
        /\ <<"log", "reset:refused", u>> \in Range(out)
        /\ pSession[u] # 0
        /\ pDesk[u] # 0
        /\ chReset = <<>>

\* C17: a pass of the administrative timer pushes the coin change of a
\* recharge to a player exactly when the player is in the registry with a
\* session, and no recharge makes the pass fail.
C17_RechargeDelivery ==
    [][AdminPass
       => \A u \in Uids :
            /\ <<"push", "onCoinChange", u>> \in Range(out')
               => u \in players /\ pSession[u] # 0
            /\ <<"fault", "recharge", u>> \notin Range(out')]_vars

\* The effects are those of a Ready command in room d.
WasReady(q, d) == q # <<>> /\ Last(q) = <<"checkStart", "", d>>

\* C18: the effects of a Ready command are, in this order, the seat marked
\* ready, the status sync broadcast to the room and the start check; the
\* status sync shows the readiness the start check decides on, so when the
\* command starts the game the sync shows every seated player ready.
C18_ReadyOrder ==
    [][\A d \in DeskNos :
         WasReady(out', d)
         => /\ Len(out') = 3
            /\ out'[1] = <<"ready", "self", d>>
            /\ out'[2] = <<"broadcast", "onSyncDesk", d, ready'[d]>>
            /\ (dStatus[d] = DeskStatusCreate /\ dStatus'[d] = DeskStatusPlaying)
               => Seated(d) \subseteq out'[2][4]]_vars

\* A Ready command of the last seated player has started a game of two.
C18_Witness ==
    \E d \in desks :
        /\ WasReady(out, d)
        /\ dStatus[d] = DeskStatusPlaying
        /\ Cardinality(Seated(d)) = MaxSeats
        /\ out[2] = <<"broadcast", "onSyncDesk", d, Seated(d)>>

\* C19: no OpChoose handler is left waiting to post its choice: the post
\* returns at once, whether or not the player's operation queue is full.
C19_PostNeverBlocks == \A s \in Sessions : sending[s] = <<>>

\* C20: a Login whose binding of the uid to the session fails returns that
\* failure, and leaves the registry, the players and the sessions as they
\* were: no player is created and none is bound to the session.
C20_LoginBindFailure ==
    [][\A u \in PlayerIds :
         (out' # <<>> /\ out'[1] = <<"bind failed", "Login", u>>)
         => /\ Last(out') = <<"error", "bind", u>>
            /\ UNCHANGED <<sessVars, playerVars, deskVars>>]_vars

\* The effects are those of a CreateDesk that was rejected for reason r.
CreateRejected(q, r) ==
    /\ Len(q) = 1
    /\ q[1][3] = 0
    /\ q[1][2] = r
    /\ q[1][1] = IF r = "options" THEN "error" ELSE "response"

\* C21: a CreateDesk that is rejected (the player has a room, the version is
\* expired, the options are malformed, the room cards or the club balance
\* are too few) leaves the room registry, the next room number, every room
\* and every player's room as they were.
C21_RejectedCreate ==
    [][(\E r \in {"reentry", "version", "options", "cards", "club"} :
            CreateRejected(out', r))
       => /\ desks' = desks
          /\ nextNo' = nextNo
          /\ pDesk' = pDesk
          /\ UNCHANGED deskVars]_vars

\* A player that has a room asked for another and was refused, after a
\* request with malformed options was refused as well.
C21_Witness ==
    /\ CreateRejected(out, "reentry")
    /\ desks # {}
    /\ nextNo > 1
    /\ \E u \in players : pDesk[u] \in desks

\* The legal tiles that complete the hand.
Completing(hand) == {x \in 1..MaxTileIndex : x % 10 # 0 /\ CanHu(hand, x)}

\* C22: what TingTiles returns for a hand is exactly the legal tiles (1 to
\* MaxTileIndex without the multiples of 10) that CanHu accepts for the hand,
\* and IsTing returns true exactly when there is such a tile.
C22_TingTiles ==
    /\ "TingTiles" \in called => Range(rts) = Completing(onHand)
    /\ "IsTing" \in called => (ting <=> Completing(onHand) # {})

\* Both evaluations have returned for a full hand that waits for two tiles.
C22_Witness ==
    /\ called = {"TingTiles", "IsTing"}
    /\ Len(onHand) = MaxHand
    /\ Len(rts) = 2
    /\ ting

\* C23: the close callback of a session that is not the one a player is bound
\* to (a session replaced by Login or ReConnect among them) leaves the
\* player's session, the player's place in the registry, the player's room
\* and seat and the player's online mark as they were.
C23_ReplacedSessionClose ==
    [][\A s \in closing \ closing', u \in players :
         (pSession[u] # 0 /\ pSession[u] # s)
         => /\ pSession'[u] = pSession[u]
            /\ u \in players'
            /\ pDesk'[u] = pDesk[u]
            /\ dPlayers' = dPlayers
            /\ \A d \in DeskNos : u \in offline'[d] <=> u \in offline[d]]_vars

\* The close callback of a replaced session of a seated player has run, and
\* the player is bound to a live session.
C23_Witness ==
    \E u \in players, s \in sClosed \ closing :
        /\ Owner(s) = u
        /\ sUid[s] = 0
        /\ out = <<>>
        /\ pSession[u] \notin {0, s}
        /\ pSession[u] \notin sClosed
        /\ pDesk[u] \in desks
        /\ u \in Seated(pDesk[u])
        /\ u \notin offline[pDesk[u]]

\* C24: a DissolveStatus agreement destroys a room only while a dissolve
\* vote is active in that room.
C24_DissolveNeedsVote ==
    [][\A d \in DeskNos :
         (WasDissolveStatus(out', 1) /\ <<"destroy", "", d>> \in Range(out'))
         => dissolving[d]]_vars

RoomCommands ==
    {"Ready", "ClientInitCompleted", "Pause", "Resume", "QiPaiFinished",
     "VoiceMessage", "RecordingVoice"}

\* C25: no command about a room (Ready, ClientInitCompleted, Pause, Resume,
\* QiPaiFinished, VoiceMessage, RecordingVoice) of a player without a room
\* fails, and those that find the player without a room leave the rooms and
\* the votes as they were.
C25_RoomCommandWithoutRoom ==
    [][/\ \A h \in RoomCommands : <<"fault", h, 0>> \notin Range(out')
       /\ (\E u \in Uids, h \in {"Pause:nodesk", "Resume:nodesk", "QiPaiFinished:nodesk"} :
               out' = <<<<"log", h, u>>>>)
          => UNCHANGED <<deskVars, voteVars>>]_vars

\* C26: no kick makes a pass of the administrative timer fail, whoever it
\* names, and a pass closes a session for a kick only when the kick names a
\* player of the registry with a session, and then that player's session.
C26_KickOffline ==
    [][AdminPass
       => \A u \in Uids :
            /\ <<"fault", "kick", u>> \notin Range(out')
            /\ <<"close", "kick", u>> \in Range(out')
               => /\ u \in players
                  /\ pSession[u] # 0
                  /\ pSession[u] \in sClosed']_vars

\* C27: while a destroyed room is in the registry no player is added to its
\* seats, and no Join that names it is answered with the room's table
\* information.
C27_NoSeatInDestroyed ==
    [][\A d \in desks :
         isDestroy(d)
         => /\ Range(dPlayers'[d]) \subseteq Seated(d)
            /\ out' # <<<<"response", "joined", d>>>>]_vars
====
